---- MODULE Spec2Model ----
(***************************************************************************)
(* Model of packages/@aws-cdk/aws-iot/lib/topic-rule.ts: the TopicRule     *)
(* construct (constructor) and its static import TopicRule.fromTopicRuleArn *)
(* acting on one enclosing scope.                                          *)
(*                                                                         *)
(* Strings that the code parses or composes (ARNs, rule names) are         *)
(* sequences of one-character strings.  Optional values (string |          *)
(* undefined) are records [defined, value].                                *)
(***************************************************************************)
EXTENDS Integers, Sequences, FiniteSets, TLC

VARIABLES nodes, resources, bindLog, last

vars == <<nodes, resources, bindLog, last>>

----------------------------------------------------------------------------
(* Bounds *)

\* longest text after "rule/" in an imported identifier
MaxNameLen == 3

\* the construct ids used in the scope
Ids == {"Imported", "MyTopicRule"}

----------------------------------------------------------------------------
(* Optional values and strings *)

Undefined == [defined |-> FALSE, value |-> <<>>]
Some(v) == [defined |-> TRUE, value |-> v]

\* JavaScript `!x` for x : string | undefined
Falsy(x) == ~x.defined \/ x.value = <<>>

\* position of the first c in s, 0 when there is none (String.indexOf, 1-based)
IndexOf(s, c) ==
  LET hits == {i \in 1..Len(s) : s[i] = c} IN
  IF hits = {} THEN 0 ELSE CHOOSE i \in hits : \A j \in hits : i <= j

RECURSIVE Split(_, _)
\* String.split(c)
Split(s, c) ==
  LET i == IndexOf(s, c) IN
  IF i = 0 THEN <<s>>
  ELSE <<SubSeq(s, 1, i - 1)>> \o Split(SubSeq(s, i + 1, Len(s)), c)

EndsWith(s, t) ==
  Len(t) <= Len(s) /\ SubSeq(s, Len(s) - Len(t) + 1, Len(s)) = t

RECURSIVE SeqsUpTo(_, _)
\* all sequences over S of length 0..n
SeqsUpTo(S, n) ==
  IF n = 0 THEN {<<>>}
  ELSE LET shorter == SeqsUpTo(S, n - 1) IN
       shorter \cup {Append(s, c) : s \in shorter, c \in S}

----------------------------------------------------------------------------
(* The engine: ARN convention, scope, provider *)

Iot == <<"i", "o", "t">>
Rule == <<"r", "u", "l", "e">>
Thing == <<"t", "h", "i", "n", "g">>

\* arn:aws:<service>:<region>:<account>:  (region "r", account "1")
ArnHead(service) ==
  <<"a", "r", "n", ":", "a", "w", "s", ":">> \o service \o <<":", "r", ":", "1", ":">>

\* composing an ARN from {service, resource, resourceName}, slash resource name
formatArn(components) ==
  ArnHead(components.service) \o components.resource \o <<"/">>
    \o components.resourceName.value

\* Stack.splitArn(arn, ArnFormat.SLASH_RESOURCE_NAME)
splitArn(arn) ==
  LET components == Split(arn, ":")
      resourceTypeOrName == components[6]
      slashIndex == IndexOf(resourceTypeOrName, "/")
  IN [service |-> components[3],
      resource |-> IF slashIndex = 0 THEN resourceTypeOrName
                   ELSE SubSeq(resourceTypeOrName, 1, slashIndex - 1),
      resourceName |-> IF slashIndex = 0 THEN Undefined
                       ELSE Some(SubSeq(resourceTypeOrName, slashIndex + 1,
                                        Len(resourceTypeOrName)))]

NoError == [kind |-> "none", message |-> "", arn |-> <<>>]

\* the scope rejects a second construct under an id it already holds
DuplicateId == [kind |-> "DuplicateId", message |-> "There is already a Construct with name", arn |-> <<>>]

\* the state of the enclosing scope: its child nodes, the resource records
\* registered under them, and the log of filter-configuration bindings
Scope == [nodes |-> nodes, resources |-> resources, bindLog |-> bindLog]

Returned(scope) == [scope |-> scope, threw |-> FALSE, error |-> NoError]
Thrown(scope, error) == [scope |-> scope, threw |-> TRUE, error |-> error]

\* the Resource base constructor: attaches the new object to scope under id
Attach(scope, id, obj) ==
  [scope EXCEPT !.nodes = [i \in DOMAIN scope.nodes \cup {id} |->
                             IF i = id THEN obj ELSE scope.nodes[i]]]

\* IotSql.bind(scope): the query and version of the filter configuration
bind(sql) == [awsIotSqlVersion |-> sql.version, sql |-> sql.query]

\* names the provider hands out to a rule declared without one
ProviderNames == {<<"g">>, <<"g", "x">>}

\* resource.ref of the declared rule: its name once realized
ref(ruleName, assigned) == IF ruleName.defined THEN ruleName.value ELSE assigned

\* resource.attrArn of the declared rule: its ARN once realized
attrArn(ruleName, assigned) ==
  formatArn([service |-> Iot, resource |-> Rule,
             resourceName |-> Some(ref(ruleName, assigned))])

\* Resource.getResourceArnAttribute(arnAttr, arnComponents)
getResourceArnAttribute(arnAttr, components) ==
  IF components.resourceName.defined THEN formatArn(components) ELSE arnAttr

\* Resource.getResourceNameAttribute(nameAttr)
getResourceNameAttribute(nameAttr) == nameAttr

----------------------------------------------------------------------------
(* topic-rule.ts *)

\* variant of the check at line 57 that tests only for undefined
MissingResourceNameStrict(parts) == ~parts.resourceName.defined

\* line 57: if (!parts.resourceName)
MissingResourceName(parts) == Falsy(parts.resourceName)

\* line 58: throw new Error(`Missing topic rule name in ARN: '${topicRuleArn}'`)
ValidationError(topicRuleArn) ==
  [kind |-> "Error", message |-> "Missing topic rule name in ARN", arn |-> topicRuleArn]

\* text after the last c in s (all of s when there is none)
RECURSIVE AfterLast(_, _)
AfterLast(s, c) ==
  LET i == IndexOf(s, c) IN
  IF i = 0 THEN s ELSE AfterLast(SubSeq(s, i + 1, Len(s)), c)

\* variant of Import whose name field is given the identifier
ImportNameIsArn(topicRuleArn, resourceName) ==
  [kind |-> "Import", topicRuleArn |-> topicRuleArn, topicRuleName |-> topicRuleArn]

\* variant of Import that keeps only the last path segment as the name
ImportLastSegment(topicRuleArn, resourceName) ==
  [kind |-> "Import", topicRuleArn |-> topicRuleArn,
   topicRuleName |-> AfterLast(resourceName, "/")]

\* lines 62-65: class Import
Import(topicRuleArn, resourceName) ==
  [kind |-> "Import", topicRuleArn |-> topicRuleArn, topicRuleName |-> resourceName]

\* variant of fromTopicRuleArn that creates the Import before the check
fromTopicRuleArnCheckLast(scope, id, topicRuleArn) ==
  LET parts == splitArn(topicRuleArn) IN
  IF id \in DOMAIN scope.nodes THEN Thrown(scope, DuplicateId)
  ELSE LET attached == Attach(scope, id, Import(topicRuleArn, parts.resourceName.value)) IN
       IF MissingResourceName(parts)
       THEN Thrown(attached, ValidationError(topicRuleArn))
       ELSE Returned(attached)

\* variant of fromTopicRuleArn that also declares a resource for the import
fromTopicRuleArnDeclaring(scope, id, topicRuleArn) ==
  LET parts == splitArn(topicRuleArn) IN
  IF MissingResourceName(parts) THEN Thrown(scope, ValidationError(topicRuleArn))
  ELSE IF id \in DOMAIN scope.nodes THEN Thrown(scope, DuplicateId)
  ELSE Returned([Attach(scope, id, Import(topicRuleArn, parts.resourceName.value))
         EXCEPT !.resources = [i \in DOMAIN scope.resources \cup {id} |->
            IF i = id
            THEN [ruleName |-> parts.resourceName,
                  topicRulePayload |-> [actions |-> <<>>, awsIotSqlVersion |-> "",
                                        sql |-> ""]]
            ELSE scope.resources[i]]])

\* lines 55-69
fromTopicRuleArn(scope, id, topicRuleArn) ==
  LET parts == splitArn(topicRuleArn) IN
  IF MissingResourceName(parts) THEN Thrown(scope, ValidationError(topicRuleArn))
  ELSE IF id \in DOMAIN scope.nodes THEN Thrown(scope, DuplicateId)
  ELSE Returned(Attach(scope, id, Import(topicRuleArn, parts.resourceName.value)))

\* variant of the super call that does not pass the name on
physicalNameDropped(props) == Undefined

\* lines 84-86: super(scope, id, { physicalName: props.topicRuleName })
physicalName(props) == props.topicRuleName

\* variant of the record that leaves the version out
CfnTopicRulePropsNoVersion(physName, sqlConfig) ==
  [ruleName |-> physName,
   topicRulePayload |-> [actions |-> <<>>,
                         awsIotSqlVersion |-> "",
                         sql |-> sqlConfig.sql]]

\* lines 90-97: the properties handed to new CfnTopicRule(this, 'Resource', ...)
CfnTopicRuleProps(physName, sqlConfig) ==
  [ruleName |-> physName,
   topicRulePayload |-> [actions |-> <<>>,
                         awsIotSqlVersion |-> sqlConfig.awsIotSqlVersion,
                         sql |-> sqlConfig.sql]]

\* variant of the components with resource 'rules'
ArnComponentsPlural(physName) ==
  [service |-> Iot, resource |-> Append(Rule, "s"), resourceName |-> physName]

\* lines 99-103: the components passed to getResourceArnAttribute
ArnComponents(physName) ==
  [service |-> Iot, resource |-> Rule, resourceName |-> physName]

\* lines 99-103
topicRuleArn(physName, assigned) ==
  getResourceArnAttribute(attrArn(physName, assigned), ArnComponents(physName))

\* variant of line 104 that takes the name from the physical name
topicRuleNameFromPhysical(physName, assigned) ==
  getResourceNameAttribute(physName.value)

\* line 104
topicRuleName(physName, assigned) ==
  getResourceNameAttribute(ref(physName, assigned))

\* variant of line 88 that binds the filter configuration twice
BindingsTwice(log, id, props) == Append(Append(log, id), id)

\* line 88: const sqlConfig = props.sql.bind(this), logged per binding context
Bindings(log, id, props) == Append(log, id)

\* lines 83-105; assigned is the name the provider gives when none was passed
TopicRule(scope, id, props, assigned) ==
  IF id \in DOMAIN scope.nodes THEN Thrown(scope, DuplicateId)
  ELSE
    LET physName == physicalName(props)
        sqlConfig == bind(props.sql)
        self == [kind |-> "TopicRule",
                 topicRuleArn |-> topicRuleArn(physName, assigned),
                 topicRuleName |-> topicRuleName(physName, assigned)]
        attached == Attach(scope, id, self)
    IN Returned([attached EXCEPT
         !.bindLog = Bindings(scope.bindLog, id, props),
         !.resources = [i \in DOMAIN scope.resources \cup {id} |->
                          IF i = id THEN CfnTopicRuleProps(physName, sqlConfig)
                          ELSE scope.resources[i]]])

----------------------------------------------------------------------------
(* Inputs *)

\* text after "<resource>/" in identifiers handed to the import
NameStrings == SeqsUpTo({"x", "/"}, MaxNameLen)

\* resource parts: "rule", "rule/<text>", and for another resource type
\* "thing", "thing/", "thing/x"
ResourceParts ==
  {Rule} \cup {Rule \o <<"/">> \o n : n \in NameStrings}
    \cup {Thing, Thing \o <<"/">>, Thing \o <<"/", "x">>}

ImportArns == {ArnHead(Iot) \o p : p \in ResourceParts}

ExplicitNames == {<<"M", "y", "R", "u", "l", "e">>, <<"x">>}

IotSqls == {[version |-> "2015-10-08", query |-> "SELECT * FROM 'a'"],
            [version |-> "2016-03-23", query |-> "SELECT t FROM 'b'"]}

TopicRulePropsSet ==
  {[topicRuleName |-> n, sql |-> s] :
     n \in {Undefined} \cup {Some(e) : e \in ExplicitNames}, s \in IotSqls}

NoProps == [topicRuleName |-> Undefined, sql |-> [version |-> "", query |-> ""]]

----------------------------------------------------------------------------
(* State machine *)

Init ==
  /\ nodes = <<>>
  /\ resources = <<>>
  /\ bindLog = <<>>
  /\ last = [op |-> "none", id |-> "", arn |-> <<>>, props |-> NoProps,
             threw |-> FALSE, error |-> NoError]

Apply(r) ==
  /\ nodes' = r.scope.nodes
  /\ resources' = r.scope.resources
  /\ bindLog' = r.scope.bindLog

\* the input of the last call, kept unless the scope itself rejected the call
Observed(r, input, none) == IF r.error = DuplicateId THEN none ELSE input

\* TopicRule.fromTopicRuleArn(scope, id, arn)
FromTopicRuleArn ==
  \E id \in Ids, arn \in ImportArns :
    \E r \in {fromTopicRuleArn(Scope, id, arn)} :
    /\ Apply(r)
    /\ last' = [op |-> "import", id |-> id, arn |-> Observed(r, arn, <<>>),
                props |-> NoProps, threw |-> r.threw, error |-> r.error]

\* new TopicRule(scope, id, props)
NewTopicRule ==
  \E id \in Ids, props \in TopicRulePropsSet, assigned \in ProviderNames :
    \E r \in {TopicRule(Scope, id, props, assigned)} :
    /\ Apply(r)
    /\ last' = [op |-> "create", id |-> id, arn |-> <<>>,
                props |-> Observed(r, props, NoProps),
                threw |-> r.threw, error |-> r.error]

Next == FromTopicRuleArn \/ NewTopicRule

Spec == Init /\ [][Next]_vars

TypeOK ==
  /\ DOMAIN nodes \subseteq Ids
  /\ DOMAIN resources \subseteq DOMAIN nodes
  /\ last.op \in {"none", "import", "create"}

----------------------------------------------------------------------------
(* Properties *)

ImportReturned == last.op = "import" /\ ~last.threw
CreateReturned == last.op = "create" /\ ~last.threw
RaisedOwnError == last.threw /\ last.error.kind # "DuplicateId"

\* the identifier prefix:rule/<n>
RuleArn(n) == ArnHead(Iot) \o Rule \o <<"/">> \o n

\* arn has no '/' followed by at least one character
NoNameSegment(arn) == ~\E i \in 1..(Len(arn) - 1) : arn[i] = "/"

\* number of entries of log equal to id
Count(log, id) == Cardinality({k \in 1..Len(log) : log[k] = id})

\* C1: importing prefix:rule/<name>, <name> not empty, under an id the scope
\* accepts returns an identity whose name is <name> and whose arn is the
\* input string unchanged.
C1_RoundTrip ==
  \A n \in NameStrings \ {<<>>} :
    (last.op = "import" /\ last.arn = RuleArn(n)) =>
      /\ ~last.threw
      /\ nodes[last.id].topicRuleName = n
      /\ nodes[last.id].topicRuleArn = RuleArn(n)

C1_Witness ==
  /\ ImportReturned
  /\ last.arn = RuleArn(<<"x">>)
  /\ nodes[last.id].topicRuleName = <<"x">>

C3_ExplicitName ==
  (CreateReturned /\ last.props.topicRuleName.defined) =>
    LET N == last.props.topicRuleName.value
        self == nodes[last.id]
        parts == splitArn(self.topicRuleArn)
    IN /\ self.topicRuleName = N
       /\ EndsWith(self.topicRuleArn, Rule \o <<"/">> \o N)
       /\ parts.service = Iot
       /\ parts.resource = Rule
       /\ parts.resourceName = Some(N)

C3_Witness ==
  /\ CreateReturned
  /\ last.props.topicRuleName = Some(<<"M", "y", "R", "u", "l", "e">>)
  /\ nodes[last.id].topicRuleName = <<"M", "y", "R", "u", "l", "e">>

\* C4: constructing without a name yields a non-empty name, assigned by the
\* provider, and an arn whose trailing segment is that name.
C4_AssignedName ==
  (CreateReturned /\ ~last.props.topicRuleName.defined) =>
    LET self == nodes[last.id] IN
    /\ self.topicRuleName # <<>>
    /\ self.topicRuleName \in ProviderNames
    /\ EndsWith(self.topicRuleArn, <<"/">> \o self.topicRuleName)
    /\ AfterLast(self.topicRuleArn, "/") = self.topicRuleName

C4_Witness ==
  /\ CreateReturned
  /\ ~last.props.topicRuleName.defined
  /\ nodes[last.id].topicRuleName = <<"g", "x">>

\* C5: every registered record has an empty action list, and the record of
\* a construction carries the version and the query that binding its filter
\* configuration returned.
C5_Payload ==
  /\ \A i \in DOMAIN resources : resources[i].topicRulePayload.actions = <<>>
  /\ CreateReturned =>
       LET payload == resources[last.id].topicRulePayload IN
       /\ payload.awsIotSqlVersion = last.props.sql.version
       /\ payload.sql = last.props.sql.query
       /\ payload.awsIotSqlVersion # ""
       /\ payload.sql # ""

C5_Witness ==
  /\ CreateReturned
  /\ resources[last.id].topicRulePayload =
       [actions |-> <<>>, awsIotSqlVersion |-> "2016-03-23",
        sql |-> "SELECT t FROM 'b'"]

\* a step in which an import returns
ImportReturns == last'.op = "import" /\ ~last'.threw

\* C6 as stated: an import that returns leaves the resource records as they
\* were and has no other effect on the scope.
C6_NoEffectAtAll ==
  [][ImportReturns =>
       /\ resources' = resources
       /\ bindLog' = bindLog
       /\ nodes' = nodes]_vars

\* C6: an import that returns leaves the resource records and the bindings
\* as they were; its one effect on the scope is the new Import node holding
\* the identity under the given id, all other nodes staying as they were.
C6_NoNewRecord ==
  [][ImportReturns =>
       /\ resources' = resources
       /\ bindLog' = bindLog
       /\ last'.id \notin DOMAIN nodes
       /\ DOMAIN nodes' = DOMAIN nodes \cup {last'.id}
       /\ nodes'[last'.id].kind = "Import"
       /\ \A i \in DOMAIN nodes : nodes'[i] = nodes[i]]_vars

C6_Witness ==
  /\ ImportReturned
  /\ DOMAIN resources # {}
  /\ last.id \notin DOMAIN resources

\* once created, an identity stays in the scope with the same arn and name
IdentitiesKept ==
  \A i \in DOMAIN nodes : i \in DOMAIN nodes' /\ nodes'[i] = nodes[i]

\* C7 as stated: the arn of every identity has resource type rule and its
\* name is the last path segment of the arn, and identities never change.
C7_LastSegment ==
  \A i \in DOMAIN nodes :
    /\ splitArn(nodes[i].topicRuleArn).resource = Rule
    /\ nodes[i].topicRuleName = AfterLast(nodes[i].topicRuleArn, "/")

\* C7: the name of every identity is not empty and is the whole text of the
\* arn after the first '/' of its resource part (it may contain '/'), so the
\* arn ends in '/' and the name; a constructed rule's arn has resource type
\* rule; and the arn and name of an identity never change.
C7_Derivable ==
  /\ [](\A i \in DOMAIN nodes :
          LET parts == splitArn(nodes[i].topicRuleArn) IN
          /\ nodes[i].topicRuleName # <<>>
          /\ parts.resourceName = Some(nodes[i].topicRuleName)
          /\ EndsWith(nodes[i].topicRuleArn, <<"/">> \o nodes[i].topicRuleName)
          /\ nodes[i].kind = "TopicRule" => parts.resource = Rule)
  /\ [][IdentitiesKept]_vars

C7_Witness ==
  \E i \in DOMAIN nodes :
    /\ nodes[i].kind = "Import"
    /\ nodes[i].topicRuleArn = RuleArn(<<"x", "/", "x">>)
    /\ nodes[i].topicRuleName = <<"x", "/", "x">>

\* C8: the registered records are exactly one per constructed rule, under
\* the rule's id; each rule's filter configuration was bound exactly once;
\* and a construction raises no error of this code.
C8_OneRecord ==
  /\ DOMAIN resources = {i \in DOMAIN nodes : nodes[i].kind = "TopicRule"}
  /\ \A i \in DOMAIN resources : Count(bindLog, i) = 1
  /\ Len(bindLog) = Cardinality(DOMAIN resources)
  /\ CreateReturned => last.id \in DOMAIN resources
  /\ (last.op = "create" /\ last.threw) => last.error = DuplicateId

C8_Witness ==
  /\ CreateReturned
  /\ Cardinality(DOMAIN resources) = 2
  /\ Len(bindLog) = 2

\* C9: the ruleName of the record is the explicit name when one was given
\* and absent when none was; when given it is the resourceName of the arn.
C9_RuleName ==
  CreateReturned =>
    LET record == resources[last.id] IN
    /\ record.ruleName = last.props.topicRuleName
    /\ record.ruleName.defined =>
         splitArn(nodes[last.id].topicRuleArn).resourceName = record.ruleName

C9_Witness ==
  /\ CreateReturned
  /\ ~last.props.topicRuleName.defined
  /\ ~resources[last.id].ruleName.defined

\* C10: a step in which an import raises its error leaves the scope as it
\* was, with no node added for the id; and the call that follows such a
\* failure under the same, still unused id is not rejected by the scope.
C10_FailBeforeCreate ==
  [][/\ (last'.op = "import" /\ last'.threw /\ last'.error.kind = "Error") =>
          /\ nodes' = nodes
          /\ resources' = resources
          /\ bindLog' = bindLog
     /\ (/\ last.op = "import" /\ last.threw /\ last.error.kind = "Error"
         /\ last.id \notin DOMAIN nodes
         /\ last'.id = last.id) =>
          last'.error.kind # "DuplicateId"]_vars

C10_Witness ==
  /\ last.op = "import"
  /\ last.threw
  /\ last.error.kind = "Error"
  /\ last.id \notin DOMAIN nodes
  /\ DOMAIN nodes # {}

====
